---- MODULE Spec2Model ----
(***************************************************************************)
(* The two upload scripts of the repository, upload_via_curl.py and        *)
(* upload_via_gh.py, as one state machine.  A run walks a file tree and,   *)
(* file by file, looks the file up in the remote content store (GET), reads*)
(* it, and writes it (PUT).  Strings are modelled as sequences of tokens   *)
(* (a token is a run of characters, "/" is the path separator), so that    *)
(* str.startswith, str.endswith, str.split and urllib.parse.quote are      *)
(* computed as the code computes them.                                     *)
(***************************************************************************)
EXTENDS Integers, Sequences, FiniteSets, TLC

VARIABLES
    script,     \* which program runs: "curl" or "gh"
    files,      \* what os.walk(ROOT) yields, flattened: <<[dirpath, fname], ...>>
    idx,        \* number of files the walk has taken so far
    pc,         \* position of the single thread of control
    authCalls,  \* number of times `gh auth token` has been run
    TOKEN,      \* the bearer token (curl), None while not obtained
    sha,        \* the program variable sha
    p,          \* result of gh_get for the file being processed
    q,          \* result of the PUT for the file last written
    success,    \* counter
    errors,     \* counter
    results,    \* the per-file lines printed so far: <<[rel, line], ...>>
    calls,      \* trace of remote calls: <<[op, path, sha, returned], ...>>
    exitCode    \* process exit status, NoExit while running

vars == <<script, files, idx, pc, authCalls, TOKEN, sha, p, q,
          success, errors, results, calls, exitCode>>

-----------------------------------------------------------------------------
(* Bounds of the model *)

MaxFiles == 2

-----------------------------------------------------------------------------
(* Strings as token sequences *)

Sep == "/"

None == "<None>"

Absent == "<no field>"

NoExit == -1

StartsWith(s, prefix) ==
    /\ Len(prefix) <= Len(s)
    /\ SubSeq(s, 1, Len(prefix)) = prefix

EndsWith(s, suffix) ==
    /\ Len(suffix) <= Len(s)
    /\ SubSeq(s, Len(s) - Len(suffix) + 1, Len(s)) = suffix

Contains(seq, x) == \E i \in 1..Len(seq) : seq[i] = x

\* str.split(os.sep): the components between separators
RECURSIVE Split(_)
Split(s) ==
    IF \A i \in 1..Len(s) : s[i] # Sep
    THEN <<s>>
    ELSE LET k == CHOOSE i \in 1..Len(s) :
                      /\ s[i] = Sep
                      /\ \A j \in 1..(i - 1) : s[j] # Sep
         IN <<SubSeq(s, 1, k - 1)>> \o Split(SubSeq(s, k + 1, Len(s)))

\* '/'.join(parts)
RECURSIVE JoinSlash(_)
JoinSlash(parts) ==
    IF Len(parts) = 0 THEN <<>>
    ELSE IF Len(parts) = 1 THEN parts[1]
    ELSE parts[1] \o <<Sep>> \o JoinSlash(Tail(parts))

\* urllib.parse.quote(s): "/" is safe, a space is percent-encoded
Quote(s) == [i \in 1..Len(s) |-> IF s[i] = " " THEN "%20" ELSE s[i]]

\* urllib.parse.quote(s, safe=''): "/" is percent-encoded too
QuoteNoSafe(s) ==
    [i \in 1..Len(s) |-> IF s[i] = " " THEN "%20"
                         ELSE IF s[i] = Sep THEN "%2F" ELSE s[i]]

\* os.path.join(dirpath, fname)
PathJoin(dirpath, fname) == dirpath \o <<Sep>> \o fname

\* os.path.relpath(fp, ROOT) with ROOT = '.'
RelPath(fp) ==
    IF StartsWith(fp, <<".", Sep>>) THEN SubSeq(fp, 3, Len(fp)) ELSE fp

\* the working directory: an absolute path, so it starts with the separator
Cwd == <<Sep, "repo">>

\* __file__ of upload_via_gh.py when run from ROOT
ScriptFile == <<"upload_via_gh.py">>

\* os.path.abspath(path) of a relative path
AbsPath(path) == Cwd \o <<Sep>> \o path

-----------------------------------------------------------------------------
(* The file tree *)

File(dirpath, fname) == [dirpath |-> dirpath, fname |-> fname]

\* The paths a tree may hold, in the order os.walk yields them (top-down:
\* the files of ROOT first, then each directory's files together).
WalkOrder ==
    << File(<<".">>, <<"a.txt">>),
       File(<<".">>, ScriptFile),
       File(<<".", Sep, ".git">>, <<"config">>),
       File(<<".", Sep, "sub">>, <<"b", " ", "c.bin">>),
       File(<<".", Sep, "sub">>, <<".git">>),
       File(<<".", Sep, "sub">>, <<".DS_Store">>),
       File(<<".", Sep, ".video_push_logs">>, <<"x.log">>),
       File(<<".", Sep, "astro-app", Sep, ".astro">>, <<"t.json">>),
       File(<<".", Sep, "astro-app", Sep, ".git", "-submodule-backup">>, <<"f">>) >>

RECURSIVE Select(_, _)
Select(seq, keep) ==
    IF Len(seq) = 0 THEN <<>>
    ELSE (IF Head(seq) \in keep THEN <<Head(seq)>> ELSE <<>>)
         \o Select(Tail(seq), keep)

Trees ==
    { Select(WalkOrder, keep) :
        keep \in { k \in SUBSET {WalkOrder[i] : i \in 1..Len(WalkOrder)} :
                     Cardinality(k) <= MaxFiles } }

FilePath(f) == PathJoin(f.dirpath, f.fname)

Rel(f) == RelPath(FilePath(f))

-----------------------------------------------------------------------------
(* Enumeration filter *)

\* `'.git' in dirpath.split(os.sep)`
InGitDir(f) == Contains(Split(f.dirpath), <<".git">>)

\* the four startswith/endswith tests of upload_via_curl.py
CurlExcluded(rel) ==
    \/ StartsWith(rel, <<"astro-app", Sep, ".git", "-submodule-backup">>)
    \/ StartsWith(rel, <<".video_push_logs">>)
    \/ StartsWith(rel, <<"astro-app", Sep, ".astro">>)
    \/ EndsWith(rel, <<".DS_Store">>)

\* `fp == os.path.abspath(__file__)`
IsScriptItself(f) == FilePath(f) = AbsPath(ScriptFile)

Skipped(s, f) ==
    IF s = "curl"
    THEN InGitDir(f) \/ CurlExcluded(Rel(f))
    ELSE InGitDir(f) \/ IsScriptItself(f)

-----------------------------------------------------------------------------
(* Remote responses *)

ShaTokens == {"T1", "T2"}

Body(kind, v, content) == [kind |-> kind, sha |-> v, content |-> content]

\* what a command's stdout may hold: text that is not JSON, a JSON list (the
\* listing of a directory), or a JSON object with or without the fields `sha`
\* and `content`
Bodies ==
    { Body("invalid", Absent, FALSE),
      Body("list", Absent, FALSE),
      Body("object", Absent, FALSE),
      Body("object", Absent, TRUE),
      Body("object", "", TRUE) }
    \cup { Body("object", t, TRUE) : t \in ShaTokens }

\* what a failed command's stdout may hold
ErrorBodies ==
    { Body("invalid", Absent, FALSE),
      Body("object", Absent, FALSE),
      Body("object", "T1", TRUE) }

Responses ==
    [returncode : {0}, stdout : Bodies] \cup [returncode : {1}, stdout : ErrorBodies]

NoResp == [returncode |-> NoExit, stdout |-> Body("none", Absent, FALSE)]

\* gh_get's CompletedProcess(cmd, returncode=2, stdout='', stderr='timeout')
TimeoutResp == [returncode |-> 2, stdout |-> Body("invalid", Absent, FALSE)]

-----------------------------------------------------------------------------
(* Per-file logic *)

\* Python truthiness of `sha`
Truthy(v) == v \notin {None, ""}

\* `sha=None; if p.returncode==0: try: obj=json.loads(p.stdout); sha=obj[...]
\*  except Exception: sha=None`.  prev is the value sha held before (unused:
\* the assignment sha=None comes first).  json.loads raises on an invalid
\* body; on a list obj.get raises (curl) and 'sha' in obj is false (gh).
ShaKeptOnFailure(s, prev, r) ==
    IF r.returncode = 0
    THEN IF r.stdout.kind = "object" /\ r.stdout.sha # Absent
         THEN r.stdout.sha
         ELSE None
    ELSE prev

ShaAfterLookup(s, prev, r) ==
    IF r.returncode = 0
    THEN IF r.stdout.kind = "object" /\ r.stdout.sha # Absent
         THEN r.stdout.sha
         ELSE None
    ELSE None

PathForUrlUnsplit(rel) == QuoteNoSafe(rel)

\* path_for_url: '/'.join(quote(p, safe='') for p in rel.split(os.sep))
PathForUrl(rel) ==
    LET parts == Split(rel)
    IN JoinSlash([i \in 1..Len(parts) |-> QuoteNoSafe(parts[i])])

\* api_path=quote(rel)
ApiPath(rel) == Quote(rel)

Get(path) == [op |-> "GET", path |-> path, sha |-> None, returned |-> FALSE]

\* the write request: the payload (curl) or the -f fields (gh) carry sha only
\* `if sha:`
Put(s, rel, v) ==
    [op |-> "PUT",
     path |-> IF s = "curl" THEN PathForUrl(rel) ELSE ApiPath(rel),
     sha |-> IF Truthy(v) THEN v ELSE None,
     returned |-> FALSE]

\* the line printed for the result of the PUT
Classify(s, r) ==
    IF s = "curl"
    THEN IF r.returncode = 0
         THEN IF r.stdout.kind = "invalid" THEN "FAIL"
              ELSE IF r.stdout.kind = "object" /\ r.stdout.content THEN "OK"
              ELSE "FAIL"
         ELSE "FAIL"
    ELSE IF r.returncode = 0 THEN "OK" ELSE "FAIL"

ExitStatusAlwaysZero(e) == 0

\* `if errors>0: sys.exit(2) else: sys.exit(0)`
ExitStatus(e) == IF e > 0 THEN 2 ELSE 0

Cur == files[idx]

Returned(trace) ==
    [trace EXCEPT ![Len(trace)] = [@ EXCEPT !.returned = TRUE]]

Record(rel, line) == [rel |-> rel, line |-> line]

-----------------------------------------------------------------------------
(* The state machine *)

Init ==
    /\ script \in {"curl", "gh"}
    /\ files \in Trees
    /\ idx = 0
    /\ pc = IF script = "curl" THEN "get_token" ELSE "walk"
    /\ authCalls = 0
    /\ TOKEN = None
    /\ sha = None
    /\ p = NoResp
    /\ q = NoResp
    /\ success = 0
    /\ errors = 0
    /\ results = <<>>
    /\ calls = <<>>
    /\ exitCode = NoExit

\* get_token() returns the helper's stdout
GetTokenOk ==
    /\ pc = "get_token"
    /\ authCalls' = authCalls + 1
    /\ TOKEN' = "token"
    /\ pc' = "walk"
    /\ UNCHANGED <<script, files, idx, sha, p, q, success, errors, results,
                   calls, exitCode>>

\* get_token(): timeout or non-zero return code, sys.exit(2)
GetTokenFails ==
    /\ pc = "get_token"
    /\ authCalls' = authCalls + 1
    /\ pc' = "aborted"
    /\ exitCode' = 2
    /\ UNCHANGED <<script, files, idx, TOKEN, sha, p, q, success, errors,
                   results, calls>>

\* the walk takes a file that one of the `continue` tests filters out
SkipFile ==
    /\ pc = "walk"
    /\ idx < Len(files)
    /\ Skipped(script, files[idx + 1])
    /\ idx' = idx + 1
    /\ UNCHANGED <<script, files, pc, authCalls, TOKEN, sha, p, q, success,
                   errors, results, calls, exitCode>>

\* the walk takes a file that passes the filter; curl calls gh_get at once,
\* gh reads the file first.  p and q hold the results of the calls made for
\* the current file only: the values left by the previous file are dead (both
\* are assigned before they are read) and are dropped.
BeginFile ==
    /\ pc = "walk"
    /\ idx < Len(files)
    /\ ~Skipped(script, files[idx + 1])
    /\ idx' = idx + 1
    /\ p' = NoResp
    /\ q' = NoResp
    /\ IF script = "curl"
       THEN /\ calls' = Append(calls, Get(ApiPath(Rel(files[idx + 1]))))
            /\ pc' = "lookup"
       ELSE /\ calls' = calls
            /\ pc' = "read"
    /\ UNCHANGED <<script, files, authCalls, TOKEN, sha, success, errors,
                   results, exitCode>>

\* gh_get returns with the command's return code and output
LookupReturns ==
    /\ pc = "lookup"
    /\ \E r \in Responses :
         /\ p' = r
         /\ sha' = ShaAfterLookup(script, sha, r)
    /\ calls' = Returned(calls)
    /\ pc' = IF script = "curl" THEN "read" ELSE "prepare"
    /\ UNCHANGED <<script, files, idx, authCalls, TOKEN, q, success, errors,
                   results, exitCode>>

\* upload_via_curl's gh_get: subprocess.TimeoutExpired after 60 s
LookupTimeout ==
    /\ pc = "lookup"
    /\ script = "curl"
    /\ p' = TimeoutResp
    /\ sha' = ShaAfterLookup(script, sha, TimeoutResp)
    /\ calls' = Returned(calls)
    /\ pc' = "read"
    /\ UNCHANGED <<script, files, idx, authCalls, TOKEN, q, success, errors,
                   results, exitCode>>

ReadFailsNoContinue ==
    /\ pc = "read"
    /\ errors' = errors + 1
    /\ results' = Append(results, Record(Rel(Cur), "ERROR"))
    /\ IF script = "curl"
       THEN /\ calls' = calls
            /\ pc' = "prepare"
       ELSE /\ calls' = Append(calls, Get(ApiPath(Rel(Cur))))
            /\ pc' = "lookup"
    /\ UNCHANGED <<script, files, idx, authCalls, TOKEN, sha, p, q, success,
                   exitCode>>

\* open(fp,'rb') or f.read() raises: '[ERROR] read', errors+=1, continue
ReadFails ==
    /\ pc = "read"
    /\ errors' = errors + 1
    /\ results' = Append(results, Record(Rel(Cur), "ERROR"))
    /\ p' = NoResp
    /\ pc' = "walk"
    /\ UNCHANGED <<script, files, idx, authCalls, TOKEN, sha, q, success,
                   calls, exitCode>>

\* the file is read; gh now calls gh_get, curl goes on to the payload
ReadOk ==
    /\ pc = "read"
    /\ IF script = "curl"
       THEN /\ calls' = calls
            /\ pc' = "prepare"
       ELSE /\ calls' = Append(calls, Get(ApiPath(Rel(Cur))))
            /\ pc' = "lookup"
    /\ UNCHANGED <<script, files, idx, authCalls, TOKEN, sha, p, q, success,
                   errors, results, exitCode>>

\* curl: open('/tmp/payload.json','w') or json.dump raises; gh: subprocess.run
\* raises OSError (the encoded content is an argument of the command).
\* Neither is inside a try: the exception ends the process with status 1.
PrepareFails ==
    /\ pc = "prepare"
    /\ pc' = "crashed"
    /\ exitCode' = 1
    /\ UNCHANGED <<script, files, idx, authCalls, TOKEN, sha, p, q, success,
                   errors, results, calls>>

\* the PUT is issued
SendPut ==
    /\ pc = "prepare"
    /\ calls' = Append(calls, Put(script, Rel(Cur), sha))
    /\ pc' = "put"
    /\ UNCHANGED <<script, files, idx, authCalls, TOKEN, sha, p, q, success,
                   errors, results, exitCode>>

\* the PUT returns and its result is classified
PutReturns ==
    /\ pc = "put"
    /\ \E r \in Responses :
         /\ q' = r
         /\ results' = Append(results, Record(Rel(Cur), Classify(script, r)))
         /\ IF Classify(script, r) = "OK"
            THEN success' = success + 1 /\ errors' = errors
            ELSE errors' = errors + 1 /\ success' = success
    /\ calls' = Returned(calls)
    /\ p' = NoResp
    /\ pc' = "walk"
    /\ UNCHANGED <<script, files, idx, authCalls, TOKEN, sha, exitCode>>

\* upload_via_curl: subprocess.TimeoutExpired after 120 s, '[FAIL] curl
\* timeout', errors+=1, continue (q then records that the call was
\* abandoned: no output was received)
PutTimeout ==
    /\ pc = "put"
    /\ script = "curl"
    /\ q' = TimeoutResp
    /\ results' = Append(results, Record(Rel(Cur), "FAIL"))
    /\ errors' = errors + 1
    /\ calls' = Returned(calls)
    /\ p' = NoResp
    /\ pc' = "walk"
    /\ UNCHANGED <<script, files, idx, authCalls, TOKEN, sha, success,
                   exitCode>>

\* the walk is exhausted: the summary line and sys.exit
Finish ==
    /\ pc = "walk"
    /\ idx = Len(files)
    /\ pc' = "done"
    /\ exitCode' = ExitStatus(errors)
    /\ UNCHANGED <<script, files, idx, authCalls, TOKEN, sha, p, q, success,
                   errors, results, calls>>

\* the steps the process takes by itself
ProgramStep ==
    \/ GetTokenOk
    \/ GetTokenFails
    \/ SkipFile
    \/ BeginFile
    \/ LookupTimeout
    \/ ReadFails
    \/ ReadOk
    \/ PrepareFails
    \/ SendPut
    \/ PutTimeout
    \/ Finish

\* the steps that need the remote side to answer
RemoteStep ==
    \/ LookupReturns
    \/ PutReturns

Next == ProgramStep \/ RemoteStep

Spec == Init /\ [][Next]_vars

\* The process is scheduled: a step it can take by itself is taken.  Nothing
\* makes the remote side answer.
FairSpec == Spec /\ WF_vars(ProgramStep)

-----------------------------------------------------------------------------
(* Vocabulary of the properties *)

Terminal == {"done", "aborted", "crashed"}

FileSet == {files[i] : i \in 1..Len(files)}

\* the key of a file in the remote store
RemoteKey(f) == Quote(Rel(f))

CallsOf(f, op) ==
    {k \in 1..Len(calls) : calls[k].op = op /\ calls[k].path = RemoteKey(f)}

ResultsOf(f) == {k \in 1..Len(results) : results[k].rel = Rel(f)}

Lines(kind) == {k \in 1..Len(results) : results[k].line \in kind}

\* the token a lookup result offers: the sha of a JSON object returned by a
\* lookup that succeeded, when it is a usable (non-empty) token
OfferedToken(r) ==
    IF /\ r.returncode = 0
       /\ r.stdout.kind = "object"
       /\ r.stdout.sha \in ShaTokens
    THEN r.stdout.sha
    ELSE None

\* the stored-object marker: a JSON object with a `content` field, returned by
\* a write that completed
HasMarker(r) ==
    /\ r.returncode = 0
    /\ r.stdout.kind = "object"
    /\ r.stdout.content

\* excluded as the specification words it: a path component equal to .git, or
\* one of the prefix/suffix patterns
SpecExcluded(f) ==
    \/ Contains(Split(Rel(f)), <<".git">>)
    \/ CurlExcluded(Rel(f))

\* passes the filter under every reading: no exclusion pattern matches, the
\* filter of the running script lets it through, and it is not the script
Eligible(f) ==
    /\ ~Skipped(script, f)
    /\ ~SpecExcluded(f)
    /\ Rel(f) # ScriptFile

-----------------------------------------------------------------------------
(* C1 *)

\* C1: while a write is in flight, the request carries exactly the token the
\* lookup of the same file offered, and carries none when that lookup failed,
\* timed out, or returned no usable sha.
C1_WriteCarriesLookupToken ==
    pc = "put" => calls[Len(calls)].sha = OfferedToken(p)

\* a tokenless write (its lookup failed) after a write that carried a token
C1_Witness ==
    /\ pc = "put"
    /\ p.returncode # 0
    /\ calls[Len(calls)].sha = None
    /\ \E k \in 1..Len(calls) : calls[k].op = "PUT" /\ calls[k].sha = "T1"

-----------------------------------------------------------------------------
(* C2 *)

\* C2 as claimed: when the run completes, every file that matches no
\* exclusion pattern has had exactly one write.
C2_ExactlyOneWrite ==
    pc = "done" =>
        \A f \in FileSet :
            Eligible(f) => Cardinality(CallsOf(f, "PUT")) = 1

\* C2 amended: no file is ever written more than once; a file whose result is
\* recorded has had exactly one write if its local read succeeded and none if
\* the read failed; when the run completes every file the filter lets through
\* has exactly one recorded result.
C2_AtMostOneWrite ==
    \A f \in FileSet :
        /\ Cardinality(CallsOf(f, "PUT")) <= 1
        /\ \A k \in ResultsOf(f) :
               Cardinality(CallsOf(f, "PUT")) =
                   IF results[k].line = "ERROR" THEN 0 ELSE 1
        /\ pc = "done" /\ ~Skipped(script, f) => Cardinality(ResultsOf(f)) = 1

\* a completed run in which one file was written and another failed to read
C2_Witness ==
    /\ pc = "done"
    /\ \E f, g \in FileSet :
           /\ \E k \in ResultsOf(f) : results[k].line = "ERROR"
           /\ CallsOf(f, "PUT") = {}
           /\ Cardinality(CallsOf(g, "PUT")) = 1

-----------------------------------------------------------------------------
(* C3 *)

\* C3: success counts the [OK] lines and errors the other lines, so their sum
\* is the number of files processed so far; a completed run has processed
\* every file the filter lets through and exits 0 if errors = 0, 2 otherwise.
C3_CountersAndExit ==
    /\ success = Cardinality(Lines({"OK"}))
    /\ errors = Cardinality(Lines({"FAIL", "ERROR"}))
    /\ success + errors = Len(results)
    /\ pc = "done" =>
           /\ Len(results) = Cardinality({f \in FileSet : ~Skipped(script, f)})
           /\ exitCode = IF errors = 0 THEN 0 ELSE 2

\* a completed run with one success and one failure
C3_Witness ==
    /\ pc = "done"
    /\ success = 1
    /\ errors = 1
    /\ exitCode = 2

-----------------------------------------------------------------------------
(* C4 *)

\* C4 as claimed: a run ends before its summary only through a credential
\* failure, never through an error met while processing a file.
C4_OnlyCredentialFailureAborts ==
    pc \in Terminal /\ pc # "done" =>
        /\ pc = "aborted"
        /\ TOKEN = None
        /\ idx = 0

-----------------------------------------------------------------------------
(* C5 *)

\* C5 as claimed: the credential helper runs at most once, a run that has
\* issued a remote call has run it exactly once and holds its token, and a
\* credential failure ends the run non-zero before any file is taken.
C5_CredentialBeforeRemoteCalls ==
    /\ authCalls <= 1
    /\ calls # <<>> => authCalls = 1 /\ TOKEN # None
    /\ pc = "aborted" => idx = 0 /\ calls = <<>> /\ exitCode # 0

-----------------------------------------------------------------------------
(* C6 *)

\* C6 as claimed: once a write has ended, its file is recorded [OK] exactly
\* when the write completed with a JSON object holding `content`.
C6_SuccessIffMarker ==
    q # NoResp /\ pc \in {"walk", "done"} =>
        (results[Len(results)].line = "OK" <=> HasMarker(q))

-----------------------------------------------------------------------------
(* C7 *)

\* C7 as claimed: a file with a .git path component, or matching one of the
\* exclusion patterns, gets no lookup, no write and no recorded result.
C7_ExcludedNeverTouched ==
    \A f \in FileSet :
        SpecExcluded(f) =>
            /\ CallsOf(f, "GET") = {}
            /\ CallsOf(f, "PUT") = {}
            /\ ResultsOf(f) = {}

-----------------------------------------------------------------------------
(* C8 *)

\* C8: the trace of remote calls is a sequence of per-file blocks: every call
\* but the last has returned, every write directly follows the returned
\* lookup of the same path, and no path is looked up twice.
C8_LookupThenWriteBlocks ==
    /\ \A k \in 1..(Len(calls) - 1) : calls[k].returned
    /\ \A k \in 1..Len(calls) :
           calls[k].op = "PUT" =>
               /\ k > 1
               /\ calls[k - 1].op = "GET"
               /\ calls[k - 1].path = calls[k].path
               /\ calls[k - 1].returned
    /\ \A j, k \in 1..Len(calls) :
           j < k /\ calls[j].op = "GET" /\ calls[k].op = "GET" =>
               calls[j].path # calls[k].path

\* upload_via_curl has written a file of a subdirectory after another file
C8_Witness ==
    /\ script = "curl"
    /\ Len(calls) >= 3
    /\ calls[Len(calls)].op = "PUT"
    /\ Contains(calls[Len(calls)].path, Sep)

-----------------------------------------------------------------------------
(* C9 *)

\* C9 as claimed: every run ends, whether or not the remote side answers.
C9_RunTerminates == <>(pc \in Terminal)

-----------------------------------------------------------------------------
(* C10 *)

\* C10 as claimed: upload_via_gh issues no lookup and no write for its own
\* file and records no result for it.
C10_ScriptNotUploaded ==
    script = "gh" =>
        /\ \A k \in 1..Len(calls) : calls[k].path # ApiPath(ScriptFile)
        /\ \A k \in 1..Len(results) : results[k].rel # ScriptFile

====
